---- MODULE Spec2Model ----
(***************************************************************************)
(* A model of dd.py: the duplicate-directory pipeline.                     *)
(*                                                                         *)
(* Text.  A Python str is modelled as a sequence of words; the separators  *)
(* between the words (".", " ", "(", ")") are not modelled.  Lower-casing, *)
(* str comparison and the case-insensitive search work on the words.       *)
(***************************************************************************)
EXTENDS Integers, Sequences, FiniteSets, TLC

\* ------------------------------------------------------------------ bounds
MaxDirs == 3
MaxRoots == 2
MaxRules == 2
MaxFiles == 2

\* -------------------------------------------------------------------- text
\* str.lower() of one word.
Lower(w) ==
    CASE w = "Movie" -> "movie"
      [] w = "Other" -> "other"
      [] w = "BluRay" -> "bluray"
      [] w = "WEBRip" -> "webrip"
      [] OTHER -> w

\* str.lower()
LowerStr(s) == [k \in 1..Len(s) |-> Lower(s[k])]

\* The words in the order Python's str comparison gives them (code points:
\* digits, then upper case, then lower case).
WordOrder ==
    << "2020", "BluRay", "Movie", "Other", "WEBRip", "bluray", "imdb:",
       "junk", "movie", "other", "tt0000001", "tt0000002", "tt123", "webrip" >>

Rank(w) == CHOOSE k \in 1..Len(WordOrder) : WordOrder[k] = w

\* a < b on str
StrLess(a, b) ==
    \E k \in 1..(Len(b)) :
        /\ \A m \in 1..(k - 1) : m <= Len(a) /\ a[m] = b[m]
        /\ \/ k = Len(a) + 1
           \/ k <= Len(a) /\ Rank(a[k]) < Rank(b[k])

\* regex.search(dir_name) for a pattern compiled with re.IGNORECASE: the
\* pattern's words occur, in a row and in any case, somewhere in the name.
Search(pattern, dir_name) ==
    \E off \in 0..(Len(dir_name) - Len(pattern)) :
        \A k \in 1..Len(pattern) : Lower(dir_name[off + k]) = Lower(pattern[k])

\* ----------------------------------------------------------------- scoring
\* The key of a compiled pattern in the dict: re.compile returns equal (and,
\* from its cache, identical) objects for equal pattern strings and flags.
CompiledKey(item) == item.pattern

LastWins(patterns) ==
    [p \in {CompiledKey(patterns[k]) : k \in 1..Len(patterns)} |->
        LET last == CHOOSE k \in 1..Len(patterns) :
                        /\ CompiledKey(patterns[k]) = p
                        /\ \A m \in (k + 1)..Len(patterns) :
                               CompiledKey(patterns[m]) # p
        IN  patterns[last].score]

\* compiled[re.compile(item["pattern"], re.IGNORECASE)] = item["score"], in
\* turn: a later item with the same pattern replaces the earlier one's score.
compile_score_patterns(patterns) == LastWins(patterns)

RECURSIVE SumMatching(_, _, _)
SumMatching(dir_name, compiled, left) ==
    IF left = {} THEN 0
    ELSE LET regex == CHOOSE p \in left : TRUE
             value == compiled[regex]
         IN  (IF Search(regex, dir_name) THEN value ELSE 0)
             + SumMatching(dir_name, compiled, left \ {regex})

calculate_score(dir_name, compiled) ==
    SumMatching(dir_name, compiled, DOMAIN compiled)

\* ---------------------------------------------------------------- identity
IdWords == {"tt0000001", "tt0000002"}

\* re.search(r"(tt\d{7,8})", content): the first identifier in the text, as a
\* sequence of at most one word (<< >>: no match).
ReSearchId(content) ==
    LET hits == {k \in 1..Len(content) : content[k] \in IdWords}
    IN  IF hits = {} THEN << >>
        ELSE << content[CHOOSE k \in hits : \A m \in hits : k <= m] >>

\* (mutant) the try block stands around the loop: the first file whose read
\* raises ends the search.
RECURSIVE ScanNfoStopOnError(_, _)
ScanNfoStopOnError(nfo_files, k) ==
    IF k > Len(nfo_files) THEN << >>
    ELSE IF ~nfo_files[k].readable THEN << >>
    ELSE IF ReSearchId(nfo_files[k].text) # << >>
         THEN ReSearchId(nfo_files[k].text)
         ELSE ScanNfoStopOnError(nfo_files, k + 1)

\* The loop over the *.nfo files from file k on: a file whose read raises is
\* logged and skipped, the first match is returned, None (<< >>) otherwise.
RECURSIVE ScanNfo(_, _)
ScanNfo(nfo_files, k) ==
    IF k > Len(nfo_files) THEN << >>
    ELSE IF ~nfo_files[k].readable THEN ScanNfo(nfo_files, k + 1)
    ELSE IF ReSearchId(nfo_files[k].text) # << >>
         THEN ReSearchId(nfo_files[k].text)
         ELSE ScanNfo(nfo_files, k + 1)

get_imdb_id_from_directory(dir_path) == ScanNfo(dir_path.nfo, 1)

\* The warnings of that loop: one for each file whose read raised before the
\* loop returned, in order.
RECURSIVE NfoWarnings(_)
NfoWarnings(nfo_files) ==
    IF nfo_files = << >> THEN << >>
    ELSE IF ~Head(nfo_files).readable
         THEN << "warning" >> \o NfoWarnings(Tail(nfo_files))
    ELSE IF ReSearchId(Head(nfo_files).text) # << >> THEN << >>
    ELSE NfoWarnings(Tail(nfo_files))

YearWords == {"2020"}
TagWords == {"BluRay", "WEBRip", "bluray", "webrip"}

\* guessit(name), the external parser: the title is the run of words before
\* the first year or release tag (absent when the name starts with one), the
\* year is the first year word (absent when there is none).
guessit(name) ==
    LET stops == {k \in 1..Len(name) : name[k] \in YearWords \cup TagWords}
        first == IF stops = {} THEN Len(name) + 1
                 ELSE CHOOSE k \in stops : \A m \in stops : k <= m
        years == {k \in 1..Len(name) : name[k] \in YearWords}
    IN  [title |-> SubSeq(name, 1, first - 1),
         year |-> IF years = {} THEN << >>
                  ELSE << name[CHOOSE k \in years : \A m \in years : k <= m] >>]

canonicalize_name(name) ==
    LET info == guessit(name)
        title == LowerStr(IF info.title # << >> THEN info.title ELSE name)
        year == info.year
    IN  IF year # << >> THEN title \o year ELSE title

ImdbKey(imdb_id) == << "imdb:" >> \o imdb_id

get_canonical_key(dir_path) ==
    LET imdb_id == get_imdb_id_from_directory(dir_path)
    IN  IF imdb_id # << >> THEN ImdbKey(imdb_id)
        ELSE canonicalize_name(dir_path.name)

\* ---------------------------------------------------------------- the disk
\* A directory entry of a root: its Path (root, name), whether it is a
\* directory, and the *.nfo files in it, in glob's order.
NoDir == [root |-> "", name |-> << >>, nfo |-> << >>, is_dir |-> FALSE]

IdFile == [readable |-> TRUE, text |-> << "junk", "tt0000001" >>]

Catalog ==
    { [name |-> << "Movie", "2020", "BluRay" >>, nfo |-> << >>, is_dir |-> TRUE],
      [name |-> << "movie", "2020", "WEBRip" >>, nfo |-> << >>, is_dir |-> TRUE],
      [name |-> << "Movie", "2020" >>, nfo |-> << >>, is_dir |-> TRUE],
      [name |-> << "Other", "2020", "BluRay" >>, nfo |-> << IdFile >>, is_dir |-> TRUE],
      [name |-> << "Other", "BluRay" >>, nfo |-> << IdFile >>, is_dir |-> TRUE] }

At(root, e) == [root |-> root, name |-> e.name, nfo |-> e.nfo, is_dir |-> e.is_dir]

Roots == {"R0", "R1", "R2"}
ExistingRoots == {"R1", "R2"}

SecondRoot ==
    { At("R2", [name |-> << "Movie", "2020", "BluRay" >>, nfo |-> << >>, is_dir |-> TRUE]),
      At("R2", [name |-> << "movie", "2020", "WEBRip" >>, nfo |-> << >>, is_dir |-> TRUE]),
      At("R2", [name |-> << "Other", "2020" >>, nfo |-> << >>, is_dir |-> FALSE]) }

FirstRootChoices ==
    { {At("R1", e) : e \in es} : es \in {x \in SUBSET Catalog : Cardinality(x) <= MaxDirs} }

PathLists == UNION { [1..n -> Roots] : n \in 1..MaxRoots }

RuleLists ==
    { << [pattern |-> << "BluRay" >>, score |-> 10],
         [pattern |-> << "WEBRip" >>, score |-> -5] >> }

VARIABLES
    paths,              \* config["paths"]
    rules,              \* config["score_patterns"]
    delete, dry_run,    \* args.delete, args.dry_run
    disk,               \* the entries on disk under the roots
    disk0,              \* the disk when the program started
    pc, run, base_idx,  \* where main is: the run, the index of base_dir
    compiled_patterns,
    grouped_dirs, keys, key_idx,
    best_dir, max_score, scores, group_sorted, member_idx,
    total_dirs, total_duplicates,          \* process_base_dir's counters
    sum_dirs, sum_duplicates,              \* main's counters
    log,                \* what the logger was given, in order
    results,            \* what process_base_dir returned, per call
    hist,               \* what each call listed and grouped
    probe, probe_out    \* a function under test: its argument, its result

cfg == << paths, rules, delete, dry_run >>
scan == << grouped_dirs, keys, key_idx >>
sel == << best_dir, max_score, scores, group_sorted, member_idx >>
sums == << sum_dirs, sum_duplicates >>
test == << probe, probe_out >>
vars == << cfg, disk, disk0, pc, run, base_idx, compiled_patterns, scan, sel,
           total_dirs, total_duplicates, sums, log, results, hist, test >>

\* The number of the current call of process_base_dir, over the runs.
Visit == (run - 1) * Len(paths) + base_idx

Obs(kind, key, d) == [kind |-> kind, at |-> Visit, key |-> key, dir |-> d]

Idle ==
    /\ grouped_dirs = << >> /\ keys = << >> /\ key_idx = 1
    /\ best_dir = NoDir /\ max_score = << >> /\ scores = << >>
    /\ group_sorted = << >> /\ member_idx = 1
    /\ total_dirs = 0 /\ total_duplicates = 0
    /\ sum_dirs = 0 /\ sum_duplicates = 0
    /\ log = << >> /\ results = << >> /\ hist = << >>

Init ==
    /\ paths \in PathLists
    /\ rules \in RuleLists
    /\ delete \in BOOLEAN
    /\ dry_run \in BOOLEAN
    /\ \E first \in FirstRootChoices : disk = first \cup SecondRoot
    /\ disk0 = disk
    /\ pc = "start" /\ run = 1 /\ base_idx = 1
    /\ compiled_patterns = << >>
    /\ Idle
    /\ probe = NoDir /\ probe_out = << >>

\* ------------------------------------------------------- process_base_dir
Perms(S) ==
    {f \in [1..Cardinality(S) -> S] :
        \A a, b \in 1..Cardinality(S) : a # b => f[a] # f[b]}

\* base_dir.exists()
Exists(base_dir) == base_dir \in ExistingRoots

\* base_dir.iterdir(): the entries under base_dir, in any order.
Iterdir(base_dir) == Perms({d \in disk : d.root = base_dir})

\* [d for d in base_dir.iterdir() if d.is_dir()]
IsDir(d) == d.is_dir
Subdirs(listing) == SelectSeq(listing, IsDir)

\* dir_info[d] = key, for every listed d.
DirInfo(listed) ==
    [d \in {listed[n] : n \in 1..Len(listed)} |-> get_canonical_key(d)]

\* (mutant) grouped_dirs[key] = [d]: each key keeps the last directory only.
GroupByKeepLast(listed) ==
    LET dir_info == DirInfo(listed)
    IN  [key \in {dir_info[d] : d \in DOMAIN dir_info} |->
            LET last == CHOOSE n \in 1..Len(listed) :
                            /\ dir_info[listed[n]] = key
                            /\ \A m \in (n + 1)..Len(listed) : dir_info[listed[m]] # key
            IN  << listed[last] >>]

\* grouped_dirs[key].append(d), in dir_info's (the listing's) order.
GroupBy(listed) ==
    LET dir_info == DirInfo(listed)
    IN  [key \in {dir_info[d] : d \in DOMAIN dir_info} |->
            LET HasKey(d) == dir_info[d] = key
            IN  SelectSeq(listed, HasKey)]

\* sorted(grouped_dirs.keys())
SortedKeys(grouped) ==
    CHOOSE f \in Perms(DOMAIN grouped) :
        \A a, b \in 1..Len(f) : a < b => StrLess(f[a], f[b])

\* sorted(group, key=lambda d: d.name.lower()): a stable sort.
SortedByLowerName(group) ==
    LET order == CHOOSE f \in Perms(1..Len(group)) :
            \A a, b \in 1..Len(group) : a < b =>
                \/ StrLess(LowerStr(group[f[a]].name), LowerStr(group[f[b]].name))
                \/ /\ LowerStr(group[f[a]].name) = LowerStr(group[f[b]].name)
                   /\ f[a] < f[b]
    IN  [n \in 1..Len(group) |-> group[order[n]]]

\* (mutant) len(group) > 0
IsDuplicateGroupFromOne(group) == Len(group) > 0

\* len(group) > 1
IsDuplicateGroup(group) == Len(group) > 1

\* score > max_score, where max_score starts as float('-inf') (<< >>).
Exceeds(score, max) == max = << >> \/ score > max[1]

\* The scan of one group from member n on: best_dir and max_score.
RECURSIVE ScanBest(_, _, _, _)
ScanBest(group, compiled, n, acc) ==
    IF n > Len(group) THEN acc
    ELSE LET score == calculate_score(group[n].name, compiled)
         IN  ScanBest(group, compiled, n + 1,
                      IF Exceeds(score, acc.max_score)
                      THEN [best_dir |-> group[n], max_score |-> << score >>]
                      ELSE acc)

Scores(group, compiled) ==
    [d \in {group[n] : n \in 1..Len(group)} |-> calculate_score(d.name, compiled)]

\* (mutant) the test is missing: the kept directory is acted on too.
IsNonSurvivorAlways(d, best) == TRUE

\* if d != best_dir
IsNonSurvivor(d, best) == d # best

\* (mutant) the dry-run flag is not looked at.
PolicyIgnoringDryRun(del, dry) == IF del THEN "rmtree" ELSE "report"

\* The branch taken for a non-survivor.
Policy(del, dry) ==
    IF del THEN (IF dry THEN "would_delete" ELSE "rmtree") ELSE "report"

\* (mutant) the increment stands in the try block, after rmtree.
CountUnlessRaised(total, raised) == IF raised THEN total ELSE total + 1

\* total_duplicates += 1, after the branch, whether rmtree raised or not.
CountDuplicate(total, raised) == total + 1

\* (mutant) = in place of +=
AccumulateOverwrite(total, part) == part

\* total_dirs += result["processed"]; total_duplicates += result["duplicates"]
Accumulate(total, part) == total + part

\* The result of a root that does not exist.
MissingResult == [processed |-> 0, duplicates |-> 0]

Main ==
    /\ pc = "start"
    /\ compiled_patterns' = compile_score_patterns(rules)
    /\ base_idx' = 1
    /\ sum_dirs' = 0 /\ sum_duplicates' = 0
    /\ pc' = "main"
    /\ UNCHANGED << cfg, disk, disk0, run, scan, sel, total_dirs,
                    total_duplicates, log, results, hist, test >>

RootMissing ==
    /\ pc = "main" /\ base_idx <= Len(paths)
    /\ ~Exists(paths[base_idx])
    /\ log' = Append(log, Obs("NoRoot", << >>, NoDir))
    /\ results' = Append(results, MissingResult)
    /\ hist' = Append(hist, [grouped_dirs |-> << >>])
    /\ sum_dirs' = Accumulate(sum_dirs, MissingResult.processed)
    /\ sum_duplicates' = Accumulate(sum_duplicates, MissingResult.duplicates)
    /\ base_idx' = base_idx + 1
    /\ UNCHANGED << cfg, disk, disk0, pc, run, compiled_patterns, scan, sel,
                    total_dirs, total_duplicates, test >>

ScanRoot ==
    /\ pc = "main" /\ base_idx <= Len(paths)
    /\ Exists(paths[base_idx])
    /\ \E listing \in Iterdir(paths[base_idx]) :
          LET subdirs == Subdirs(listing)
          IN  /\ grouped_dirs' = GroupBy(subdirs)
              /\ keys' = SortedKeys(grouped_dirs')
              /\ hist' = Append(hist, [grouped_dirs |-> grouped_dirs'])
              /\ total_dirs' = Len(subdirs)
    /\ key_idx' = 1
    /\ total_duplicates' = 0
    /\ pc' = "group"
    /\ UNCHANGED << cfg, disk, disk0, run, base_idx, compiled_patterns, sel,
                    sums, log, results, test >>

SkipGroup ==
    /\ pc = "group" /\ key_idx <= Len(keys)
    /\ ~IsDuplicateGroup(grouped_dirs[keys[key_idx]])
    /\ key_idx' = key_idx + 1
    /\ UNCHANGED << cfg, disk, disk0, pc, run, base_idx, compiled_patterns,
                    grouped_dirs, keys, sel, total_dirs,
                    total_duplicates, sums, log, results, hist, test >>

SelectSurvivor ==
    /\ pc = "group" /\ key_idx <= Len(keys)
    /\ LET group == grouped_dirs[keys[key_idx]]
           found == ScanBest(group, compiled_patterns, 1,
                             [best_dir |-> NoDir, max_score |-> << >>])
       IN  /\ IsDuplicateGroup(group)
           /\ log' = Append(log, Obs("Group", keys[key_idx], NoDir))
           /\ best_dir' = found.best_dir
           /\ max_score' = found.max_score
           /\ scores' = Scores(group, compiled_patterns)
           /\ group_sorted' = SortedByLowerName(group)
    /\ member_idx' = 1
    /\ pc' = "member"
    /\ UNCHANGED << cfg, disk, disk0, run, base_idx, compiled_patterns, scan,
                    total_dirs, total_duplicates, sums, results, hist, test >>

AtMember == pc = "member" /\ member_idx <= Len(group_sorted)

NextMember ==
    /\ member_idx' = member_idx + 1
    /\ UNCHANGED << cfg, disk0, pc, run, base_idx, compiled_patterns, scan,
                    best_dir, max_score, scores, group_sorted, total_dirs,
                    sums, results, hist, test >>

KeepBest ==
    /\ AtMember
    /\ ~IsNonSurvivor(group_sorted[member_idx], best_dir)
    /\ NextMember
    /\ UNCHANGED << disk, total_duplicates, log >>

ReportDuplicate ==
    /\ AtMember
    /\ IsNonSurvivor(group_sorted[member_idx], best_dir)
    /\ Policy(delete, dry_run) = "report"
    /\ log' = Append(log, Obs("Duplicate", keys[key_idx], group_sorted[member_idx]))
    /\ total_duplicates' = CountDuplicate(total_duplicates, FALSE)
    /\ NextMember
    /\ UNCHANGED disk

WouldDelete ==
    /\ AtMember
    /\ IsNonSurvivor(group_sorted[member_idx], best_dir)
    /\ Policy(delete, dry_run) = "would_delete"
    /\ log' = Append(log, Obs("WouldDelete", keys[key_idx], group_sorted[member_idx]))
    /\ total_duplicates' = CountDuplicate(total_duplicates, FALSE)
    /\ NextMember
    /\ UNCHANGED disk

\* shutil.rmtree(d) returns: d is gone.
DeleteOk ==
    /\ AtMember
    /\ IsNonSurvivor(group_sorted[member_idx], best_dir)
    /\ Policy(delete, dry_run) = "rmtree"
    /\ disk' = disk \ {group_sorted[member_idx]}
    /\ log' = Append(log, Obs("Deleted", keys[key_idx], group_sorted[member_idx]))
    /\ total_duplicates' = CountDuplicate(total_duplicates, FALSE)
    /\ NextMember

\* shutil.rmtree(d) raises, PermissionError or another Exception: either
\* handler calls logger.error and falls through; d stays on disk.
DeleteFail ==
    /\ AtMember
    /\ IsNonSurvivor(group_sorted[member_idx], best_dir)
    /\ Policy(delete, dry_run) = "rmtree"
    /\ log' = Append(log, Obs("DeleteError", keys[key_idx], group_sorted[member_idx]))
    /\ total_duplicates' = CountDuplicate(total_duplicates, TRUE)
    /\ NextMember
    /\ UNCHANGED disk

Retain ==
    /\ pc = "member" /\ member_idx > Len(group_sorted)
    /\ log' = Append(log, Obs("Retaining", keys[key_idx], best_dir))
    /\ key_idx' = key_idx + 1
    /\ pc' = "group"
    /\ UNCHANGED << cfg, disk, disk0, run, base_idx, compiled_patterns,
                    grouped_dirs, keys, sel, total_dirs,
                    total_duplicates, sums, results, hist, test >>

\* process_base_dir returns and main adds the result to its totals.
ReturnRoot ==
    /\ pc = "group" /\ key_idx > Len(keys)
    /\ LET result == [processed |-> total_dirs, duplicates |-> total_duplicates]
       IN  /\ results' = Append(results, result)
           /\ sum_dirs' = Accumulate(sum_dirs, result.processed)
           /\ sum_duplicates' = Accumulate(sum_duplicates, result.duplicates)
    /\ base_idx' = base_idx + 1
    /\ pc' = "main"
    /\ grouped_dirs' = << >> /\ keys' = << >> /\ key_idx' = 1
    /\ best_dir' = NoDir /\ max_score' = << >> /\ scores' = << >>
    /\ group_sorted' = << >> /\ member_idx' = 1
    /\ total_dirs' = 0 /\ total_duplicates' = 0
    /\ UNCHANGED << cfg, disk, disk0, run, compiled_patterns, log, hist, test >>

Summary ==
    /\ pc = "main" /\ base_idx > Len(paths)
    /\ log' = Append(log, [kind |-> "Summary", at |-> 0, key |-> << >>, dir |-> NoDir])
    /\ pc' = "done"
    /\ UNCHANGED << cfg, disk, disk0, run, base_idx, compiled_patterns, scan,
                    sel, total_dirs, total_duplicates, sums, results, hist, test >>

Next ==
    \/ Main \/ RootMissing \/ ScanRoot \/ SkipGroup \/ SelectSurvivor
    \/ KeepBest \/ ReportDuplicate \/ WouldDelete \/ DeleteOk \/ DeleteFail
    \/ Retain \/ ReturnRoot \/ Summary

Spec == Init /\ [][Next]_vars

\* A second run of main on the disk the first one left.
Rerun ==
    /\ pc = "done" /\ run = 1
    /\ run' = 2
    /\ pc' = "start"
    /\ UNCHANGED << cfg, disk, disk0, base_idx, compiled_patterns, scan, sel,
                    total_dirs, total_duplicates, sums, log, results, hist, test >>

InitTwice == Init /\ delete = FALSE

NextTwice ==
    \/ Main \/ RootMissing \/ ScanRoot \/ SkipGroup \/ SelectSurvivor
    \/ KeepBest \/ ReportDuplicate \/ Retain \/ ReturnRoot \/ Summary
    \/ Rerun

\* Report-only mode, run twice.
SpecTwice == InitTwice /\ [][NextTwice]_vars

\* ------------------------------------------- the scorer, on its own inputs
NoRun ==
    /\ paths = << >> /\ delete = FALSE /\ dry_run = FALSE
    /\ disk = {} /\ disk0 = {}
    /\ run = 1 /\ base_idx = 1
    /\ Idle

ScoreRules ==
    [pattern : {<< "BluRay" >>, << "bluray" >>, << "WEBRip" >>}, score : {10, -5, 3}]

ScoreRuleLists == UNION { [1..n -> ScoreRules] : n \in 1..MaxRules }

ProbeNames ==
    { << "Movie", "2020", "BluRay" >>, << "movie", "2020", "WEBRip" >>,
      << "Movie", "2020" >>, << "2020" >> }

InitScore ==
    /\ rules \in ScoreRuleLists
    /\ \E name \in ProbeNames :
          probe = [root |-> "R1", name |-> name, nfo |-> << >>, is_dir |-> TRUE]
    /\ probe_out = << >>
    /\ compiled_patterns = << >>
    /\ pc = "score_start"
    /\ NoRun

ScoreCompile ==
    /\ pc = "score_start"
    /\ compiled_patterns' = compile_score_patterns(rules)
    /\ pc' = "score_compiled"
    /\ UNCHANGED << cfg, disk, disk0, run, base_idx, scan, sel, total_dirs,
                    total_duplicates, sums, log, results, hist, test >>

ScoreCalculate ==
    /\ pc = "score_compiled"
    /\ probe_out' = << calculate_score(probe.name, compiled_patterns) >>
    /\ pc' = "score_done"
    /\ UNCHANGED << cfg, disk, disk0, run, base_idx, compiled_patterns, scan,
                    sel, total_dirs, total_duplicates, sums, log, results,
                    hist, probe >>

NextScore == ScoreCompile \/ ScoreCalculate

SpecScore == InitScore /\ [][NextScore]_vars

\* ------------------------------------ the identity extractor, on its own
Unreadable == [readable |-> FALSE, text |-> << >>]

FileContents ==
    { Unreadable,
      [readable |-> TRUE, text |-> << "junk" >>],
      [readable |-> TRUE, text |-> << "tt123" >>],
      [readable |-> TRUE, text |-> << "junk", "tt0000001" >>],
      [readable |-> TRUE, text |-> << "tt0000002", "tt0000001" >>] }

NfoLists == UNION { [1..n -> FileContents] : n \in 0..MaxFiles }

InitKey ==
    /\ \E name \in ProbeNames, nfo \in NfoLists :
          probe = [root |-> "R1", name |-> name, nfo |-> nfo, is_dir |-> TRUE]
    /\ probe_out = << >>
    /\ rules = << >>
    /\ compiled_patterns = << >>
    /\ pc = "key_start"
    /\ NoRun

KeyReturn(key) ==
    /\ probe_out' = key
    /\ log' = NfoWarnings(probe.nfo)
    /\ pc' = "key_done"
    /\ UNCHANGED << cfg, disk, disk0, run, base_idx, compiled_patterns, scan,
                    sel, total_dirs, total_duplicates, sums, results, hist,
                    probe >>

\* get_canonical_key returns the identifier's key.
KeyFromId ==
    /\ pc = "key_start"
    /\ get_imdb_id_from_directory(probe) # << >>
    /\ KeyReturn(get_canonical_key(probe))

\* get_canonical_key falls back on the name.
KeyFromName ==
    /\ pc = "key_start"
    /\ get_imdb_id_from_directory(probe) = << >>
    /\ KeyReturn(get_canonical_key(probe))

NextKey == KeyFromId \/ KeyFromName

SpecKey == InitKey /\ [][NextKey]_vars

\* ================================================================= claims
Members(group) == {group[n] : n \in 1..Len(group)}

\* The root of call v of process_base_dir.
RootOf(v) == paths[((v - 1) % Len(paths)) + 1]

ActionKinds == {"Duplicate", "WouldDelete", "Deleted", "DeleteError"}
ErrorKinds == {"DeleteError"}

\* The places of the log where call v observed something of one of the kinds
\* for the group of key.
LogAt(v, kinds, key) ==
    {n \in 1..Len(log) : log[n].at = v /\ log[n].kind \in kinds /\ log[n].key = key}

RECURSIVE SumOver(_, _)
SumOver(f, left) ==
    IF left = {} THEN 0
    ELSE LET x == CHOOSE y \in left : TRUE
         IN  f[x] + SumOver(f, left \ {x})

\* The sum over the groups of (group size - 1).
ExpectedDuplicates(groups) ==
    SumOver([key \in DOMAIN groups |-> Len(groups[key]) - 1], DOMAIN groups)

DistinctRoots == \A a, b \in 1..Len(paths) : a # b => paths[a] # paths[b]

\* The subdirectories on a disk under a root.
SubdirsOn(fs, root) == {d \in fs : d.root = root /\ d.is_dir}

\* ---- C1
TopScored(group) ==
    {d \in Members(group) :
        \A e \in Members(group) :
            calculate_score(e.name, compiled_patterns)
                <= calculate_score(d.name, compiled_patterns)}

\* C1: for every group of two or more, the retained directory has the highest
\* score of the group and, among the members with that score, the lowercase
\* name that comes first alphabetically, whatever order the listing had.
C1_SurvivorIsAlphabeticalFirst ==
    pc = "member" =>
        LET top == TopScored(grouped_dirs[keys[key_idx]])
        IN  /\ best_dir \in top
            /\ \A d \in top \ {best_dir} :
                   StrLess(LowerStr(best_dir.name), LowerStr(d.name))

\* ---- C2
JustScanned == pc = "group" /\ key_idx = 1

\* The places (key, n) of the groups where d stands.
PlacesOf(d) ==
    {pl \in UNION { {<< key, n >> : n \in 1..Len(grouped_dirs[key])} :
                       key \in DOMAIN grouped_dirs} :
        grouped_dirs[pl[1]][pl[2]] = d}

\* C2: the groups partition the subdirectories of the root exactly: each
\* subdirectory stands at exactly one place of exactly one group, nothing
\* else is in a group, no group is empty, and two subdirectories share a
\* group if and only if their canonical keys are equal.
C2_GroupingPartitions ==
    JustScanned =>
        LET input == SubdirsOn(disk, paths[base_idx])
        IN  /\ \A d \in input : Cardinality(PlacesOf(d)) = 1
            /\ \A key \in DOMAIN grouped_dirs :
                   /\ grouped_dirs[key] # << >>
                   /\ Members(grouped_dirs[key]) \subseteq input
            /\ \A d, e \in input :
                   (\E key \in DOMAIN grouped_dirs :
                        {d, e} \subseteq Members(grouped_dirs[key]))
                   <=> get_canonical_key(d) = get_canonical_key(e)

C2_Witness ==
    /\ JustScanned
    /\ Cardinality(DOMAIN grouped_dirs) >= 2
    /\ \E key \in DOMAIN grouped_dirs : Len(grouped_dirs[key]) >= 2

\* ---- C3
\* What call v observed for the group of key: one "retained" and one action
\* for each other member when the group has two or more, nothing otherwise.
GroupObserved(v, key) ==
    LET group == hist[v].grouped_dirs[key]
        acted == {log[n].dir : n \in LogAt(v, ActionKinds, key)}
        kept == {log[n].dir : n \in LogAt(v, {"Retaining"}, key)}
    IN  IF Len(group) >= 2
        THEN /\ Cardinality(LogAt(v, {"Retaining"}, key)) = 1
             /\ Cardinality(LogAt(v, ActionKinds, key)) = Len(group) - 1
             /\ kept \subseteq Members(group)
             /\ acted = Members(group) \ kept
        ELSE LogAt(v, ActionKinds \cup {"Retaining", "Group"}, key) = {}

\* C3: when a call of process_base_dir has returned, each of its groups of
\* two or more has exactly one "retained" observation and (size - 1) actions,
\* one per non-survivor, each group of one has none, and the returned
\* 'duplicates' is the sum over the groups of (size - 1).
C3_OneSurvivorPerGroup ==
    \A v \in 1..Len(results) :
        /\ \A key \in DOMAIN hist[v].grouped_dirs : GroupObserved(v, key)
        /\ results[v].duplicates = ExpectedDuplicates(hist[v].grouped_dirs)

C3_Witness ==
    /\ pc = "done"
    /\ \E v \in 1..Len(results) :
          /\ \E key \in DOMAIN hist[v].grouped_dirs : Len(hist[v].grouped_dirs[key]) = 3
          /\ results[v].duplicates = 2
    /\ \E v \in 1..Len(results) :
          \E key \in DOMAIN hist[v].grouped_dirs : Len(hist[v].grouped_dirs[key]) = 1

\* ---- C4
\* The members of the groups whose "retained" observation is in the log,
\* other than the retained one: the non-survivors of the finished groups.
FinishedNonSurvivors ==
    UNION { Members(hist[log[n].at].grouped_dirs[log[n].key]) \ {log[n].dir} :
              n \in {m \in 1..Len(log) : log[m].kind = "Retaining"} }

\* C4: with the dry-run flag set the disk stays what it was when the run
\* started, whether the delete flag is set or not; with both flags set every
\* non-survivor gets a "would delete" observation, and no "duplicate" or
\* "deleted" observation is ever made.
C4_DryRunLeavesDisk ==
    dry_run =>
        /\ disk = disk0
        /\ delete =>
              /\ \A n \in 1..Len(log) :
                     log[n].kind \notin {"Duplicate", "Deleted"} \cup ErrorKinds
              /\ \A d \in FinishedNonSurvivors :
                     \E n \in 1..Len(log) :
                         log[n].kind = "WouldDelete" /\ log[n].dir = d

C4_Witness ==
    /\ pc = "done" /\ dry_run /\ delete
    /\ Cardinality(FinishedNonSurvivors) >= 3

\* ---- C5
FailStep == Len(log') = Len(log) + 1 /\ log'[Len(log')].kind \in ErrorKinds

\* A failed removal leaves the program where a successful one would: the
\* counter one higher, the next member next, nothing else changed; the
\* directory stays on disk.
FailureChangesNothing ==
    FailStep =>
        /\ log'[Len(log')].dir \in disk'
        /\ disk' = disk
        /\ total_duplicates' = total_duplicates + 1
        /\ member_idx' = member_idx + 1
        /\ UNCHANGED << cfg, pc, run, base_idx, compiled_patterns, scan,
                        best_dir, max_score, scores, group_sorted,
                        total_dirs, sums, results, hist >>

FailureIsCounted ==
    /\ pc \in {"group", "member"} =>
          total_duplicates =
              Cardinality({n \in 1..Len(log) :
                              log[n].at = Visit /\ log[n].kind \in ActionKinds})
    /\ \A n \in 1..Len(log) :
          log[n].kind \in ErrorKinds =>
              \/ log[n].dir \in disk
              \/ \E m \in (n + 1)..Len(log) :
                     log[m].kind = "Deleted" /\ log[m].dir = log[n].dir
    /\ pc = "done" =>
          /\ Len(results) = Len(paths)
          /\ \A v \in 1..Len(results) :
                /\ \A key \in DOMAIN hist[v].grouped_dirs : GroupObserved(v, key)
                /\ results[v].duplicates = ExpectedDuplicates(hist[v].grouped_dirs)

FirstCallOn(v) == \A u \in 1..(v - 1) : RootOf(u) # RootOf(v)

RECURSIVE SumResults(_, _)
SumResults(field, n) ==
    IF n = 0 THEN 0 ELSE results[n][field] + SumResults(field, n - 1)

\* C6: a root that does not exist returns 0 and 0 and observes no group; the
\* roots after it are still processed; an existing root's 'processed' is the
\* number of its immediate subdirectories; and the summary's totals are the
\* sums of the results, root by root in the order of the configuration.
C6_MissingRootCountsZero ==
    /\ \A v \in 1..Len(results) :
          IF Exists(RootOf(v))
          THEN FirstCallOn(v) =>
                  results[v].processed = Cardinality(SubdirsOn(disk0, RootOf(v)))
          ELSE /\ results[v] = [processed |-> 0, duplicates |-> 0]
               /\ \A n \in 1..Len(log) : log[n].at = v => log[n].kind = "NoRoot"
    /\ pc \in {"main", "done"} =>
          /\ sum_dirs = SumResults("processed", Len(results))
          /\ sum_duplicates = SumResults("duplicates", Len(results))
    /\ pc = "done" => Len(results) = Len(paths)

C6_Witness ==
    /\ pc = "done"
    /\ paths = << "R0", "R2" >>
    /\ sum_dirs = 2 /\ sum_duplicates = 1

\* ---- C7
RECURSIVE SumOfMatchingRules(_, _, _)
SumOfMatchingRules(dir_name, patterns, n) ==
    IF n = 0 THEN 0
    ELSE (IF Search(patterns[n].pattern, dir_name) THEN patterns[n].score ELSE 0)
         + SumOfMatchingRules(dir_name, patterns, n - 1)

\* C7: the score of a name is the sum of the weights of every configured
\* rule whose pattern matches it, each rule once, two rules with the same
\* pattern string included.
C7_ScoreSumsEveryRule ==
    pc = "score_done" =>
        probe_out = << SumOfMatchingRules(probe.name, rules, Len(rules)) >>

\* ---- C8
\* The readable files that hold an identifier, by place in the scan order.
FilesWithId(nfo_files) ==
    {m \in 1..Len(nfo_files) :
        nfo_files[m].readable /\ \E w \in IdWords : w \in Members(nfo_files[m].text)}

FirstFileWithId(nfo_files) ==
    CHOOSE m \in FilesWithId(nfo_files) : \A n \in FilesWithId(nfo_files) : m <= n

\* The first identifier in a text.
FirstIdIn(text) ==
    text[CHOOSE m \in 1..Len(text) :
            text[m] \in IdWords /\ \A n \in 1..(m - 1) : text[n] \notin IdWords]

KeyIsFirstIdentifier(prefix) ==
    pc = "key_done" =>
        IF FilesWithId(probe.nfo) # {}
        THEN LET first == FirstFileWithId(probe.nfo)
             IN  /\ probe_out = << prefix, FirstIdIn(probe.nfo[first].text) >>
                 /\ Len(log) = Cardinality({m \in 1..first : ~probe.nfo[m].readable})
        ELSE /\ probe_out = canonicalize_name(probe.name)
             /\ Len(log) = Cardinality({m \in 1..Len(probe.nfo) : ~probe.nfo[m].readable})

GroupingOf(v) ==
    [key \in DOMAIN hist[v].grouped_dirs |-> Members(hist[v].grouped_dirs[key])]

SurvivorsOf(v) ==
    {<< log[n].key, log[n].dir >> :
        n \in {m \in 1..Len(log) : log[m].at = v /\ log[m].kind = "Retaining"}}

\* C9: two report-only runs on the same disk with the same rules give, root
\* by root, the same groups and the same survivors, whatever the order of
\* each run's listing.
C9_ReportTwiceSame ==
    (pc = "done" /\ run = 2) =>
        \A v \in 1..Len(paths) :
            /\ GroupingOf(v) = GroupingOf(v + Len(paths))
            /\ SurvivorsOf(v) = SurvivorsOf(v + Len(paths))

\* ---- C10
Removed == disk0 \ disk

\* d was, in some call, a member of a group of two or more that was not the
\* one the call kept.
WasNonSurvivor(d) ==
    \E v \in 1..Len(hist) :
        \E key \in DOMAIN hist[v].grouped_dirs :
            /\ Len(hist[v].grouped_dirs[key]) >= 2
            /\ d \in Members(hist[v].grouped_dirs[key])
            /\ IF LogAt(v, {"Retaining"}, key) # {}
               THEN \A n \in LogAt(v, {"Retaining"}, key) : log[n].dir # d
               ELSE v = Visit /\ pc = "member" /\ best_dir # d

\* C10: under delete, over roots with disjoint subdirectories, only
\* non-survivors of groups of two or more are removed: no survivor and no
\* member of a group of one is, and each canonical key a root had before the
\* run still has a directory under that root.
C10_OnlyNonSurvivorsRemoved ==
    (delete /\ DistinctRoots) =>
        /\ \A d \in Removed : WasNonSurvivor(d)
        /\ \A n \in 1..Len(log) : log[n].kind = "Retaining" => log[n].dir \in disk
        /\ pc = "member" => best_dir \in disk
        /\ \A v \in 1..Len(hist) :
              \A key \in DOMAIN hist[v].grouped_dirs :
                  Len(hist[v].grouped_dirs[key]) = 1 =>
                      hist[v].grouped_dirs[key][1] \in disk
        /\ \A d \in disk0 :
              d.is_dir =>
                  \E e \in SubdirsOn(disk, d.root) :
                      get_canonical_key(e) = get_canonical_key(d)

C10_Witness ==
    /\ pc = "done" /\ delete /\ DistinctRoots
    /\ Cardinality(Removed) >= 2
    /\ \E v \in 1..Len(hist) :
          \E key \in DOMAIN hist[v].grouped_dirs : Len(hist[v].grouped_dirs[key]) = 1

====
